---- MODULE Spec2Model ----
(***************************************************************************)
(* Model of the two services of the cookbook.                              *)
(*                                                                         *)
(* Catalog: the fan-out query fetch_product                                *)
(* (python/services/catalog/service_layer/queries.py) running on the       *)
(* asyncio event loop: one TaskGroup, three tasks (inventory, pricing,     *)
(* reviews), the loop's FIFO ready queue, its timers and a discrete clock, *)
(* and the endpoint get_product that calls it.  Capabilities are the       *)
(* StubClient of tests/test_queries.py, plus the same client with the      *)
(* advisory timeout dropped (the ports' Protocol allows any                *)
(* implementation, also one that ignores `timeout`).  Spec is one call,    *)
(* SpecTwoCalls two calls one after the other on the same loop,            *)
(* SpecCancel one call that its caller may cancel, SpecFair one call on a  *)
(* loop that keeps running.                                                *)
(*                                                                         *)
(* Users (clean_python): register_user_service, the unit of work it is     *)
(* given (FakeUnitOfWork of the tests or SqlAlchemyUnitOfWork), the User   *)
(* model's username validator and the endpoint create_user_endpoint.       *)
(* SpecUsers is one use of a unit of work by a test or by the endpoint,    *)
(* SpecSameEmail several registrations with one email started together.    *)
(***************************************************************************)
EXTENDS Integers, Sequences, FiniteSets, TLC

\* ------------------------------------------------------------------ bounds
\* Largest StubClient.delay, in clock ticks.
MaxDelay == 2
\* Largest timeout_seconds, in clock ticks.
MaxDeadline == 1

\* ------------------------------------------------------------ input domains
\* The three keyword-only capabilities of fetch_product.
Units == {"inventory", "pricing", "reviews"}

\* timeout_seconds as given by the caller; the code does not validate it,
\* so zero and a negative value are inputs too.
Deadlines == (0 - 1)..MaxDeadline

ProductIds == {"p1", "p2"}

\* Inventory(available), Price(currency, amount in cents), list[str].
ValuesOf(u) ==
    CASE u = "inventory" -> {[available |-> 0], [available |-> 3]}
      [] u = "pricing"   -> {[currency |-> "USD", amount |-> 999]}
      [] u = "reviews"   -> {<<>>, <<"ok", "great">>}

\* StubClient(value, delay, raises); `raises` is any exception the test
\* hands in, a TimeoutError of the client's own included.  honours = FALSE
\* is a client that never looks at the timeout it is given.  A client
\* without delay never sleeps, so for it the flag makes no difference and is
\* kept TRUE.
StubClient(u) ==
    {c \in [value : ValuesOf(u), delay : 0..MaxDelay,
            raises : {"None", "DomainError", "TimeoutError"},
            honours : BOOLEAN] :
        /\ (c.delay = 0 => c.honours)
        /\ (c.raises # "None" => c.value = CHOOSE v \in ValuesOf(u) : TRUE)}

\* ================================================== clean_python: users
\* The registration use case register_user_service of clean_python, the two
\* units of work it can be given (the FakeUnitOfWork of the tests and the
\* SqlAlchemyUnitOfWork that the endpoint is wired to), the domain model
\* User with its username validator, and the endpoint create_user_endpoint.

\* ---------------------------------------------------- User.validate_username
Lower == {"a", "b", "o"}
Upper == {"A", "B"}
Digit == {"1"}

\* `len(v) < 3 or len(v) > 30`
UsernameMin == 3
UsernameMax == 30

\* str.lower(), character by character.
LowerChar(ch) ==
    CASE ch = "A" -> "a"
      [] ch = "B" -> "b"
      [] OTHER -> ch

ToLower(v) == [i \in DOMAIN v |-> LowerChar(v[i])]

\* re.match("^[a-zA-Z][a-zA-Z0-9_]*$", v), for a v without newline.
MatchesPattern(v) ==
    /\ v # <<>>
    /\ v[1] \in Lower \cup Upper
    /\ \A i \in DOMAIN v : v[i] \in Lower \cup Upper \cup Digit \cup {"_"}

\* The three checks of the validator, in their order; "None" when the
\* username passes.
UsernameError(v) ==
    CASE Len(v) < UsernameMin \/ Len(v) > UsernameMax -> "length"
      [] ~MatchesPattern(v) -> "pattern"
      [] v[Len(v)] = "_" -> "underscore"
      [] OTHER -> "None"

\* Usernames as sequences of characters: valid ones, one of mixed case, and
\* one for every rule of the validator.
Usernames ==
    {<<"b", "o", "b">>, <<"B", "o", "b">>, <<"a", "b", "_", "1">>,
     <<"a", "b">>, [i \in 1..(UsernameMax + 1) |-> "a"],
     <<"1", "a", "b">>, <<"a", "-", "b">>, <<"b", "o", "b", "_">>}

Emails == {"a@example.com", "b@example.com"}

\* uuid4(): some identifier.
Uuids == {"id-1", "id-2"}

\* User(username=..., email=...): the validated model; created_at is left
\* out, no code reads it.
NewUser(id, username, email) ==
    [id |-> id, username |-> ToLower(username), email |-> email,
     is_active |-> TRUE]

\* -------------------------------------------------- FakeUserRepository
\* Variant: the lookup never finds anybody.
GetByEmail_NotFound(users, email) == [kind |-> "None"]

\* next((u for u in self._users if u.email == email), None)
GetByEmail(users, email) ==
    IF \E i \in DOMAIN users : users[i].email = email
    THEN LET i == CHOOSE k \in DOMAIN users :
                     /\ users[k].email = email
                     /\ \A j \in 1..(k - 1) : users[j].email # email
         IN  [kind |-> "User", user |-> users[i]]
    ELSE [kind |-> "None"]

\* The body of `async def add`: self._users.append(user)
RepoAdd(users, user) == Append(users, user)

\* `add` is a coroutine function in both repositories of the code base
\* (`async def add`), although the port declares a plain method.
AddIsCoroutineFunction(cls) ==
    cls \in {"FakeUnitOfWork", "SqlAlchemyUnitOfWork"}

\* The effect on the repository of evaluating `repo.add(user)`: calling a
\* coroutine function only creates a coroutine object; its body runs when
\* the object is awaited, and never when it is dropped.
CallAdd(cls, users, user, awaited) ==
    IF AddIsCoroutineFunction(cls) /\ ~awaited
    THEN users
    ELSE RepoAdd(users, user)

\* --------------------------------------------------------- the state
VARIABLES
    uow,        \* the unit of work: its class, FakeUserRepository._users,
                \* FakeUnitOfWork.committed, the SQLAlchemy session and the
                \* calls made on that session
    db,         \* the rows of table users that a new session can read
    caller,     \* who drives the unit of work
    args,       \* username and email, or what the test's block does
    upc,        \* where the driver is
    user,       \* the local variable `user` of register_user_service
    result,     \* how register_user_service or the block ended
    http,       \* what create_user_endpoint answers
    users0,     \* the repository's users when the driver started
    trace,      \* calls made on the unit of work and its repository, in order
    earlier     \* how the calls of register_user_service ended that ran
                \* before the current one on the same store

regvars == <<uow, db, caller, args, upc, user, result, http, users0, trace,
             earlier>>

UowClasses == {"FakeUnitOfWork", "SqlAlchemyUnitOfWork"}

Callers == {"test_register_user_service", "create_user_endpoint",
            "test_uow_block"}

\* FakeUnitOfWork() / SqlAlchemyUnitOfWork(session_factory)
NewUow(cls) ==
    [cls |-> cls, users |-> <<>>, committed |-> FALSE,
     session |-> "none", session_calls |-> <<>>]

\* What the tests put into the fake repository before the call, with
\* `await uow.users.add(...)`.
SeedLists ==
    LET u1 == NewUser("id-1", <<"b", "o", "b">>, "a@example.com")
        u2 == NewUser("id-2", <<"a", "b", "_", "1">>, "b@example.com")
    IN  {<<>>, <<u1>>, <<u2>>, <<u1, u2>>}

\* Largest number of adds in the block of a unit-of-work test.
MaxAdds == 2

\* The body of an `async with uow:` block of a test: some awaited adds,
\* then perhaps a commit, then perhaps `raise RuntimeError("boom")`.
Blocks ==
    [adds : {s \in UNION {[1..n -> Emails] : n \in 0..MaxAdds} :
                \A i, j \in DOMAIN s : i # j => s[i] # s[j]},
     commit : BOOLEAN, raises : BOOLEAN]

\* Nothing of clean_python is running.
UsersIdle ==
    /\ uow = NewUow("FakeUnitOfWork")
    /\ db = {}
    /\ caller = "none"
    /\ args = [kind |-> "none"]
    /\ upc = "idle"
    /\ user = [kind |-> "none"]
    /\ result = [kind |-> "none"]
    /\ http = [kind |-> "none"]
    /\ users0 = <<>>
    /\ trace = <<>>
    /\ earlier = <<>>

\* --------------------------------------------------------------- the state
VARIABLES
    product_id,       \* argument of fetch_product
    timeout_seconds,  \* argument of fetch_product
    clients,          \* the inventory, pricing and reviews arguments
    pc,               \* fetch_product: "init", "waiting" (in __aexit__), "returned"
    now,              \* the loop's clock, ticks since the call started
    ready,            \* the loop's ready queue (FIFO) of handles
    tstate,           \* per task: where its coroutine is, or how it ended
    must_cancel,      \* per task: cancel() was called on it
    task_result,      \* per task: its result or exception once it is done
    tg_tasks,         \* TaskGroup._tasks
    tg_errors,        \* TaskGroup._errors
    tg_aborting,      \* TaskGroup._aborting
    outcome,          \* what the caller of fetch_product receives
    calls,            \* per capability: the arguments of every get(...) call
    wake,             \* per task: clock value at which its sleep ends
    doneAt,           \* per task: clock value when it became done
    returnedAt,       \* clock value when fetch_product returned or raised
    response,         \* what the endpoint get_product answers
    call,             \* "first" or "second" call of fetch_product on this loop
    first,            \* arguments and outcome of the first call, once ended
    caller_cancel,    \* cancel() by the caller on the task running the call:
                      \* "none", "requested", "thrown" (CancelledError raised
                      \* at the caller's await)
    propagate_cancellation_error  \* the local variable of TaskGroup.__aexit__

\* The state of one fetch_product call and of the loop it runs on.
fetchvars == <<product_id, timeout_seconds, clients, pc, now, ready, tstate,
               must_cancel, task_result, tg_tasks, tg_errors, tg_aborting,
               outcome, calls, wake, doneAt, returnedAt, caller_cancel,
               propagate_cancellation_error>>

\* The caller's cancellation and what __aexit__ remembers of it.
cancelvars == <<caller_cancel, propagate_cancellation_error>>

\* What no step inside fetch_product touches.
outside == <<response, call, first, regvars>>

vars == <<fetchvars, outside>>

inputs == <<product_id, timeout_seconds, clients>>

Terminal == {"result", "exception", "cancelled"}
Sleeping == {"sleep_timeout", "sleep_delay"}

StepHandle(u) == <<"step", u>>
DoneHandle(u) == <<"done", u>>
ParentHandle == <<"wakeup", "fetch_product">>

InReady(h) == \E i \in DOMAIN ready : ready[i] = h

\* ------------------------------------------------- StubClient.get, by line
\* Variant: a delay equal to the timeout already counts as too long.
TimesOut_Inclusive(c, timeout) ==
    c.honours /\ c.delay # 0 /\ timeout # 0 /\ c.delay >= timeout

\* `if self.delay and timeout and self.delay > timeout`
TimesOut(c, timeout) ==
    c.honours /\ c.delay # 0 /\ timeout # 0 /\ c.delay > timeout

\* Variant: the timeout is not handed on (the client sees a falsy timeout).
GetArgs_NoTimeout(pid, timeout) == [product_id |-> pid, timeout |-> 0]

\* The keyword arguments one capability call receives.
GetArgs(pid, timeout) == [product_id |-> pid, timeout |-> timeout]

\* `revs or []`
OrEmpty(revs) == IF revs = <<>> THEN <<>> ELSE revs

\* Variant: the reviews are not passed on.
Product_NoReviews(pid, inv, price, revs) ==
    [id |-> pid, inventory |-> inv, price |-> price, reviews |-> <<>>]

\* Product(id=product_id, inventory=inv, price=price, reviews=revs or [])
Product(pid, inv, price, revs) ==
    [id |-> pid, inventory |-> inv, price |-> price, reviews |-> OrEmpty(revs)]

\* The except clause of fetch_product applied to the TaskGroup's errors.
IsTimeoutError(e) == e.exc = "TimeoutError"

\* Variant: a timeout among the sub-exceptions is not recognised.
Classify_Reraise(errors) == [kind |-> "ExceptionGroup", exceptions |-> errors]

Classify(errors) ==
    IF \E i \in DOMAIN errors : IsTimeoutError(errors[i])
    THEN [kind |-> "UpstreamTimeout"]
    ELSE [kind |-> "ExceptionGroup", exceptions |-> errors]

\* ------------------------------------------------------------------- Init
\* Nothing has run yet on the loop.
InitLoop ==
    /\ pc = "init"
    /\ now = 0
    /\ ready = <<>>
    /\ tstate = [u \in Units |-> "none"]
    /\ must_cancel = [u \in Units |-> FALSE]
    /\ task_result = [u \in Units |-> [kind |-> "none"]]
    /\ tg_tasks = {}
    /\ tg_errors = <<>>
    /\ tg_aborting = FALSE
    /\ outcome = [kind |-> "none"]
    /\ calls = [u \in Units |-> <<>>]
    /\ wake = [u \in Units |-> 0]
    /\ doneAt = [u \in Units |-> 0 - 1]
    /\ returnedAt = 0 - 1
    /\ response = [kind |-> "none"]
    /\ call = "first"
    /\ first = [kind |-> "none"]
    /\ caller_cancel = "none"
    /\ propagate_cancellation_error = FALSE

Init ==
    /\ product_id \in ProductIds
    /\ timeout_seconds \in Deadlines
    /\ clients \in [inventory : StubClient("inventory"),
                    pricing : StubClient("pricing"),
                    reviews : StubClient("reviews")]
    /\ InitLoop
    /\ UsersIdle

\* ------------------------------------------------ fetch_product, lines 27-30
\* Order in which the three tasks are created, hence first stepped.
SpawnOrder == <<"inventory", "pricing", "reviews">>

\* asyncio.TaskGroup(): a group of its own for every call.
NewTaskGroup == [tasks |-> {}, errors |-> <<>>, aborting |-> FALSE]

\* Variant: the three tasks keep what tasks of an earlier call on the same
\* loop left behind, and so does the group.
Spawn_Reused ==
    /\ pc = "init"
    /\ pc' = "waiting"
    /\ tstate' = [u \in Units |-> "created"]
    /\ calls' = [u \in Units |->
                    Append(calls[u], GetArgs(product_id, timeout_seconds))]
    /\ tg_tasks' = Units
    /\ ready' = ready \o [i \in DOMAIN SpawnOrder |-> StepHandle(SpawnOrder[i])]
    /\ UNCHANGED outside
    /\ UNCHANGED <<inputs, now, must_cancel, task_result, tg_errors,
                   tg_aborting, outcome, wake, doneAt, returnedAt, cancelvars>>

\* `async with TaskGroup() as tg:` with its three create_task calls.  Each
\* call evaluates capability.get(product_id, timeout=timeout_seconds), which
\* binds the arguments, and creates a new task whose first step is appended
\* to the loop's ready queue.  No validation of timeout_seconds precedes it.
\* Leaving the block enters __aexit__, which suspends the caller while the
\* group still has tasks.
Spawn ==
    /\ pc = "init"
    /\ pc' = "waiting"
    /\ tstate' = [u \in Units |-> "created"]
    /\ must_cancel' = [u \in Units |-> FALSE]
    /\ task_result' = [u \in Units |-> [kind |-> "none"]]
    /\ wake' = [u \in Units |-> 0]
    /\ doneAt' = [u \in Units |-> 0 - 1]
    /\ calls' = [u \in Units |->
                    Append(calls[u], GetArgs(product_id, timeout_seconds))]
    /\ tg_tasks' = NewTaskGroup.tasks \cup Units
    /\ tg_errors' = NewTaskGroup.errors
    /\ tg_aborting' = NewTaskGroup.aborting
    /\ ready' = ready \o [i \in DOMAIN SpawnOrder |-> StepHandle(SpawnOrder[i])]
    /\ propagate_cancellation_error' = FALSE
    /\ UNCHANGED outside
    /\ UNCHANGED <<inputs, now, outcome, returnedAt, caller_cancel>>

\* ------------------------------------------------------- one task's step
\* Variant: every task stores its result in the slot of the first task.
Finish_SharedSlot(u, how, res) ==
    /\ tstate' = [tstate EXCEPT ![u] = how]
    /\ task_result' = [task_result EXCEPT ![SpawnOrder[1]] = res]
    /\ doneAt' = [doneAt EXCEPT ![u] = now]
    /\ ready' = Append(Tail(ready), DoneHandle(u))
    /\ UNCHANGED wake

\* Variant: a task that ends does not schedule its done callback.
Finish_NoCallback(u, how, res) ==
    /\ tstate' = [tstate EXCEPT ![u] = how]
    /\ task_result' = [task_result EXCEPT ![u] = res]
    /\ doneAt' = [doneAt EXCEPT ![u] = now]
    /\ ready' = Tail(ready)
    /\ UNCHANGED wake

\* The task ends: its result or exception is stored in the task itself and
\* its done callback (TaskGroup._on_task_done) is scheduled.
Finish(u, how, res) ==
    /\ tstate' = [tstate EXCEPT ![u] = how]
    /\ task_result' = [task_result EXCEPT ![u] = res]
    /\ doneAt' = [doneAt EXCEPT ![u] = now]
    /\ ready' = Append(Tail(ready), DoneHandle(u))
    /\ UNCHANGED wake

\* `if self.raises: raise self.raises` / `return self.value`
Complete(u) ==
    IF clients[u].raises # "None"
    THEN Finish(u, "exception", [kind |-> "exception", exc |-> clients[u].raises])
    ELSE Finish(u, "result", [kind |-> "result", value |-> clients[u].value])

\* `await asyncio.sleep(t)`: a non-positive t only yields to the loop (the
\* task is rescheduled at once), a positive t arms a timer.
Sleep(u, line, t) ==
    /\ tstate' = [tstate EXCEPT ![u] = line]
    /\ wake' = [wake EXCEPT ![u] = IF t > 0 THEN now + t ELSE now]
    /\ ready' = IF t > 0 THEN Tail(ready) ELSE Append(Tail(ready), StepHandle(u))
    /\ UNCHANGED <<task_result, doneAt>>

\* The loop runs the handle at the head of the ready queue, a task step:
\* the coroutine StubClient.get runs to its next await or to its end.  A
\* task on which cancel() was called gets CancelledError thrown in at the
\* point where it waits (or before its first line); the client does not
\* catch it, so the task ends cancelled.
RunStep(u) ==
    /\ ready # <<>>
    /\ Head(ready) = StepHandle(u)
    /\ LET c == clients[u]
           timeout == Head(calls[u]).timeout
       IN  IF must_cancel[u]
           THEN Finish(u, "cancelled", [kind |-> "cancelled"])
           ELSE CASE tstate[u] = "created" ->
                       IF TimesOut(c, timeout)
                       THEN Sleep(u, "sleep_timeout", timeout)
                       ELSE IF c.delay # 0
                            THEN Sleep(u, "sleep_delay", c.delay)
                            ELSE Complete(u)
                  [] tstate[u] = "sleep_timeout" ->
                       Finish(u, "exception",
                              [kind |-> "exception", exc |-> "TimeoutError"])
                  [] tstate[u] = "sleep_delay" -> Complete(u)
    /\ UNCHANGED outside
    /\ UNCHANGED <<inputs, pc, now, must_cancel, tg_tasks, tg_errors,
                   tg_aborting, outcome, calls, returnedAt, cancelvars>>

\* ------------------------------------------------- asyncio.TaskGroup, inlined
\* Variant: the group counts as finished as soon as one task has left it.
GroupEmpty_Any(tasks) == tasks # Units

\* `not self._tasks`: the test that ends __aexit__'s wait loop and that
\* makes _on_task_done wake the waiting caller.
GroupEmpty(tasks) == tasks = {}

\* Variant: an abort that cancels nothing.
TasksToCancel_None(tasks) == {}

\* TaskGroup._abort: `for t in self._tasks: if not t.done(): t.cancel()`
TasksToCancel(tasks) == {t \in tasks : tstate[t] \notin Terminal}

\* All orders in which a set can be iterated.
Orders(S) ==
    {o \in [1..Cardinality(S) -> S] :
        \A i, j \in 1..Cardinality(S) : i # j => o[i] # o[j]}

\* The loop runs a finished task's done callback, TaskGroup._on_task_done:
\* the task leaves the group; the waiting caller is woken if the group is
\* now empty; an exception of the task is recorded and, the first time,
\* aborts the group: every task that is not done is cancelled and so is the
\* caller's wait.  cancel() on a task that sleeps on a timer cancels the
\* timer and schedules the task; on a task already scheduled it only marks
\* it.  The set of tasks is iterated in no particular order.
RunDone(u) ==
    /\ ready # <<>>
    /\ Head(ready) = DoneHandle(u)
    /\ LET tasks1 == tg_tasks \ {u}
           failed == tstate[u] = "exception"
           abort == failed /\ ~tg_aborting
           cancelled == IF abort THEN TasksToCancel(tasks1) ELSE {}
           woken == {t \in cancelled :
                        tstate[t] \in Sleeping /\ ~InReady(StepHandle(t))}
           q1 == IF GroupEmpty(tasks1) /\ ~InReady(ParentHandle)
                 THEN Append(Tail(ready), ParentHandle)
                 ELSE Tail(ready)
       IN  /\ tg_tasks' = tasks1
           /\ tg_errors' = IF failed
                           THEN Append(tg_errors,
                                       [unit |-> u, exc |-> task_result[u].exc])
                           ELSE tg_errors
           /\ tg_aborting' = (tg_aborting \/ abort)
           /\ must_cancel' = [t \in Units |-> must_cancel[t] \/ t \in cancelled]
           /\ \E o \in Orders(woken) :
                 LET q2 == q1 \o [i \in DOMAIN o |-> StepHandle(o[i])]
                 IN  ready' = IF abort /\ ~(\E i \in DOMAIN q2 : q2[i] = ParentHandle)
                              THEN Append(q2, ParentHandle)
                              ELSE q2
    /\ UNCHANGED outside
    /\ UNCHANGED <<inputs, pc, now, tstate, task_result, outcome, calls,
                   wake, doneAt, returnedAt, cancelvars>>

\* Lines 42-46: the three tasks are awaited in turn; all are done by then,
\* so nothing suspends.  A cancelled task makes its await raise
\* CancelledError.
AwaitAll ==
    IF \A u \in Units : task_result[u].kind = "result"
    THEN [kind |-> "Product",
          value |-> Product(product_id,
                            task_result["inventory"].value,
                            task_result["pricing"].value,
                            task_result["reviews"].value)]
    ELSE [kind |-> "CancelledError"]

\* The loop runs the caller's wake-up inside TaskGroup.__aexit__, suspended
\* in `await self._on_completed_fut`.  A cancel() of the caller since its
\* last step makes that await raise CancelledError: `if not self._aborting`
\* the group remembers it and aborts, cancelling every task that is not
\* done; a group that is already aborting drops it.  Then
\* `while self._tasks:` waits again while tasks remain; otherwise the group
\* raises its errors as one ExceptionGroup, which the except clause of
\* fetch_product classifies; without errors it re-raises the remembered
\* CancelledError, which that clause does not catch; without either the
\* function goes on to build the Product.
RunParent ==
    /\ ready # <<>>
    /\ Head(ready) = ParentHandle
    /\ pc = "waiting"
    /\ LET thrown == caller_cancel = "requested"
           abort == thrown /\ ~tg_aborting
           cancelled == IF abort THEN TasksToCancel(tg_tasks) ELSE {}
           woken == {t \in cancelled :
                        tstate[t] \in Sleeping /\ ~InReady(StepHandle(t))}
           propagate == propagate_cancellation_error \/ abort
       IN  /\ caller_cancel' = IF thrown THEN "thrown" ELSE caller_cancel
           /\ propagate_cancellation_error' = propagate
           /\ tg_aborting' = (tg_aborting \/ abort)
           /\ must_cancel' = [t \in Units |-> must_cancel[t] \/ t \in cancelled]
           /\ \E o \in Orders(woken) :
                 ready' = Tail(ready) \o [i \in DOMAIN o |-> StepHandle(o[i])]
           /\ IF GroupEmpty(tg_tasks)
              THEN /\ pc' = "returned"
                   /\ outcome' = IF tg_errors # <<>>
                                 THEN Classify(tg_errors)
                                 ELSE IF propagate
                                      THEN [kind |-> "CancelledError"]
                                      ELSE AwaitAll
                   /\ returnedAt' = now
              ELSE UNCHANGED <<pc, outcome, returnedAt>>
    /\ UNCHANGED outside
    /\ UNCHANGED <<inputs, now, tstate, task_result, tg_tasks, tg_errors,
                   calls, wake, doneAt>>

\* Another task or callback on the loop calls cancel() on the task that is
\* running fetch_product.  The call is suspended in TaskGroup.__aexit__, its
\* only await: Task.cancel cancels the future it waits on, which schedules
\* the caller's wake-up, or, the wake-up being scheduled already, marks the
\* task; either way the caller's next step raises CancelledError.
CallerCancel ==
    /\ pc = "waiting"
    /\ caller_cancel = "none"
    /\ caller_cancel' = "requested"
    /\ ready' = IF InReady(ParentHandle) THEN ready ELSE Append(ready, ParentHandle)
    /\ UNCHANGED outside
    /\ UNCHANGED <<inputs, pc, now, tstate, must_cancel, task_result, tg_tasks,
                   tg_errors, tg_aborting, outcome, calls, wake, doneAt,
                   returnedAt, propagate_cancellation_error>>

\* ------------------------------------------------------ the loop's timers
\* A task whose sleep is armed and not yet cancelled.
Armed(u) ==
    tstate[u] \in Sleeping /\ ~InReady(StepHandle(u)) /\ ~must_cancel[u]

\* Timers fire in the order of their expiry; the order of two timers with
\* the same expiry (the loop's clock is coarse) is open.
FiresBefore(v, u) == wake[v] < wake[u]

\* An expired timer schedules its task.  Whether two timers that expire at
\* the same tick are handled in one loop iteration or in two is open.
TimerFire(u) ==
    /\ Armed(u)
    /\ wake[u] <= now
    /\ \A v \in Units \ {u} : Armed(v) => ~FiresBefore(v, u)
    /\ ready' = Append(ready, StepHandle(u))
    /\ UNCHANGED outside
    /\ UNCHANGED <<inputs, pc, now, tstate, must_cancel, task_result, tg_tasks,
                   tg_errors, tg_aborting, outcome, calls, wake, doneAt,
                   returnedAt, cancelvars>>

\* Time passes only while the loop is idle: nothing ready, no timer expired.
Tick ==
    /\ pc = "waiting"
    /\ ready = <<>>
    /\ \E u \in Units : Armed(u)
    /\ \A u \in Units : Armed(u) => wake[u] > now
    /\ now' = now + 1
    /\ UNCHANGED outside
    /\ UNCHANGED <<inputs, pc, ready, tstate, must_cancel, task_result,
                   tg_tasks, tg_errors, tg_aborting, outcome, calls, wake,
                   doneAt, returnedAt, cancelvars>>

\* ------------------------------------------- the endpoint get_product
\* `timeout_seconds=0.2`, the deadline the endpoint always passes: one tick
\* of the model's clock.
EndpointTimeout == 1

\* ProductResponse(id=..., inventory=product.inventory.available, ...)
ProductResponse(product) ==
    [id |-> product.id,
     inventory |-> product.inventory.available,
     price |-> product.price.amount,
     currency |-> product.price.currency,
     reviews |-> product.reviews]

\* The body of get_product after fetch_product has ended: UpstreamTimeout
\* is turned into HTTPException(504); a Product is turned into the
\* ProductResponse; there is no other except clause, so any other exception
\* leaves the handler as it is.
GetProductResponse(out) ==
    CASE out.kind = "Product" ->
            [kind |-> "ProductResponse", body |-> ProductResponse(out.value)]
      [] out.kind = "UpstreamTimeout" ->
            [kind |-> "HTTPException", status_code |-> 504]
      [] OTHER -> [kind |-> "unhandled", exception |-> out.kind]

\* get_product resumes when its fetch_product call (the one it made with
\* its fixed deadline) has returned or raised.
GetProduct ==
    /\ pc = "returned"
    /\ timeout_seconds = EndpointTimeout
    /\ response = [kind |-> "none"]
    /\ response' = GetProductResponse(outcome)
    /\ UNCHANGED <<fetchvars, call, first, regvars>>

\* ------------------------------------- two calls, one after the other
\* The first of two calls: five cases, by what happens in it.
\*   1 every capability answers at once;
\*   2 inventory times out at the deadline, pricing (which ignores the
\*     timeout) is cancelled;
\*   3 pricing fails at once, reviews is cancelled in its sleep;
\*   4 inventory fails at the very tick at which pricing times out;
\*   5 reviews ignores the timeout and answers after the deadline.
FirstCalls ==
    LET ok(u) == [value |-> CHOOSE v \in ValuesOf(u) : TRUE, delay |-> 0,
                  raises |-> "None", honours |-> TRUE]
        with(u, d, r, h) == [ok(u) EXCEPT !.delay = d, !.raises = r,
                                          !.honours = h]
        all == [inventory |-> ok("inventory"), pricing |-> ok("pricing"),
                reviews |-> ok("reviews")]
    IN  {all,
         [all EXCEPT !.inventory = with("inventory", 2, "None", TRUE),
                     !.pricing = with("pricing", 2, "None", FALSE)],
         [all EXCEPT !.pricing = with("pricing", 0, "DomainError", TRUE),
                     !.reviews = with("reviews", 2, "None", TRUE)],
         [all EXCEPT !.inventory = with("inventory", 1, "DomainError", TRUE),
                     !.pricing = with("pricing", 2, "None", TRUE)],
         [all EXCEPT !.reviews = with("reviews", 2, "None", FALSE)]}

\* The capabilities of the second call: new instances, any StubClient that
\* answers, fails or is too slow, with the one value of its kind that
\* FirstCalls uses too.
SecondClients ==
    {c \in [inventory : StubClient("inventory"),
            pricing : StubClient("pricing"),
            reviews : StubClient("reviews")] :
        \A u \in Units :
            /\ c[u].value = CHOOSE v \in ValuesOf(u) : TRUE
            /\ c[u].raises \in {"None", "DomainError"}}

InitTwoCalls ==
    /\ Init
    /\ product_id = "p1"
    /\ timeout_seconds = 1
    /\ clients \in FirstCalls

\* The caller has got the result or the exception of its first call and
\* calls fetch_product again, on the same loop, with capabilities of their
\* own.  The loop's ready queue, its timers and the tasks of the first call
\* are left as they are; the clock is read relative to the new call's start.
NewCall ==
    /\ pc = "returned"
    /\ call = "first"
    /\ call' = "second"
    /\ first' = [product_id |-> product_id,
                 timeout_seconds |-> timeout_seconds,
                 clients |-> clients,
                 outcome |-> outcome,
                 returnedAt |-> returnedAt]
    /\ product_id' = "p2"
    /\ timeout_seconds' \in Deadlines
    /\ clients' \in SecondClients
    /\ calls' = [u \in Units |-> <<>>]
    /\ pc' = "init"
    /\ now' = 0
    /\ outcome' = [kind |-> "none"]
    /\ returnedAt' = 0 - 1
    /\ UNCHANGED <<ready, tstate, must_cancel, task_result, tg_tasks,
                   tg_errors, tg_aborting, wake, doneAt, response, regvars,
                   cancelvars>>

NextTwoCalls ==
    \/ Spawn
    \/ \E u \in Units : RunStep(u)
    \/ \E u \in Units : RunDone(u)
    \/ RunParent
    \/ \E u \in Units : TimerFire(u)
    \/ Tick
    \/ NewCall

SpecTwoCalls == InitTwoCalls /\ [][NextTwoCalls]_vars

\* ================================== a call that its caller may cancel
\* The capabilities of a call that may be cancelled: the stub clients with
\* one value each; only a client that answers may ignore the timeout.
CancelClients(u) ==
    {c \in StubClient(u) :
        /\ c.value = CHOOSE v \in ValuesOf(u) : TRUE
        /\ (c.raises # "None" => c.honours)}

InitCancel ==
    /\ product_id = "p1"
    /\ timeout_seconds \in Deadlines
    /\ clients \in [inventory : CancelClients("inventory"),
                    pricing : CancelClients("pricing"),
                    reviews : CancelClients("reviews")]
    /\ InitLoop
    /\ UsersIdle

\* The steps of the event loop while one call runs.
Loop ==
    \/ \E u \in Units : RunStep(u)
    \/ \E u \in Units : RunDone(u)
    \/ RunParent
    \/ \E u \in Units : TimerFire(u)
    \/ Tick

NextCancel ==
    \/ Spawn
    \/ Loop
    \/ CallerCancel

SpecCancel == InitCancel /\ [][NextCancel]_vars

\* One call that nobody cancels, on a loop that keeps running:
\* run_until_complete runs the loop until the caller's task is done, so the
\* call is started, and while a handle is ready or a timer is armed the loop
\* takes its next step.
NextFetch ==
    \/ Spawn
    \/ Loop

SpecFair ==
    /\ InitCancel
    /\ [][NextFetch]_vars
    /\ WF_vars(Spawn)
    /\ WF_vars(Loop)

\* ============================================ clean_python: the actions
\* No catalog request is running.
FetchIdle ==
    /\ product_id = "p1"
    /\ timeout_seconds = EndpointTimeout
    /\ clients = CHOOSE c \in FirstCalls : TRUE
    /\ InitLoop

\* A test or the endpoint is about to use a unit of work.  The fake one may
\* have been seeded; the database behind the SQLAlchemy one is the empty one
\* that create_all has just made, and uow.users does not exist yet.
InitUsers ==
    /\ FetchIdle
    /\ caller \in Callers
    /\ \E cls \in UowClasses :
          /\ uow \in {[NewUow(cls) EXCEPT !.users = s] :
                         s \in IF cls = "FakeUnitOfWork"
                               THEN SeedLists ELSE {<<>>}}
    /\ db = {}
    /\ args \in IF caller = "test_uow_block"
                THEN Blocks
                ELSE [username : Usernames, email : Emails]
    /\ upc = "enter"
    /\ user = [kind |-> "none"]
    /\ result = [kind |-> "none"]
    /\ http = [kind |-> "none"]
    /\ users0 = uow.users
    /\ trace = <<>>
    /\ earlier = <<>>

\* The driver ends with an exception that leaves the `async with` block.
\* FakeUnitOfWork.__aexit__ is `pass`: nothing is undone.
Raise(exc) ==
    /\ result' = [kind |-> "raised", exc |-> exc]
    /\ upc' = "done"

\* `async with uow:` -- uow.__aenter__().  The fake returns itself.  The
\* SQLAlchemy one opens a session and then evaluates the name
\* SqlAlchemyUserRepository, which its module neither defines nor imports:
\* NameError.  An exception of __aenter__ leaves the statement without
\* __aexit__ being called, so the session stays open and the body never runs.
Enter ==
    /\ upc = "enter"
    /\ IF uow.cls = "FakeUnitOfWork"
       THEN /\ upc' = IF caller = "test_uow_block" THEN "body" ELSE "get_by_email"
            /\ UNCHANGED <<uow, result>>
       ELSE /\ uow' = [uow EXCEPT !.session = "open"]
            /\ Raise("NameError")
    /\ trace' = Append(trace, "__aenter__")
    /\ UNCHANGED <<db, caller, args, user, http, users0, earlier, fetchvars,
                   response, call, first>>

\* handlers.py:22-25  existing = await uow.users.get_by_email(email)
GetExisting ==
    /\ upc = "get_by_email"
    /\ IF GetByEmail(uow.users, args.email).kind = "User"
       THEN Raise("ValueError")
       ELSE upc' = "User" /\ UNCHANGED result
    /\ trace' = Append(trace, "get_by_email")
    /\ UNCHANGED <<uow, db, caller, args, user, http, users0, earlier, fetchvars,
                   response, call, first>>

\* handlers.py:28  user = User(username=username, email=email); a username
\* the validator rejects makes pydantic raise its ValidationError.
BuildUser ==
    /\ upc = "User"
    /\ IF UsernameError(args.username) = "None"
       THEN /\ \E id \in Uuids :
                  user' = NewUser(id, args.username, args.email)
            /\ upc' = "add"
            /\ UNCHANGED result
       ELSE Raise("ValidationError") /\ UNCHANGED user
    /\ UNCHANGED <<uow, db, caller, args, http, users0, trace, earlier, fetchvars,
                   response, call, first>>

\* handlers.py:31  uow.users.add(user) -- called, not awaited.
AddUser ==
    /\ upc = "add"
    /\ uow' = [uow EXCEPT !.users = CallAdd(uow.cls, uow.users, user, FALSE)]
    /\ trace' = Append(trace, "add")
    /\ upc' = "commit"
    /\ UNCHANGED <<db, caller, args, user, result, http, users0, earlier, fetchvars,
                   response, call, first>>

\* handlers.py:32-35  await uow.commit(); return user
Commit ==
    /\ upc = "commit"
    /\ uow' = [uow EXCEPT !.committed = TRUE]
    /\ trace' = Append(trace, "commit")
    /\ result' = [kind |-> "User", user |-> user]
    /\ upc' = "done"
    /\ UNCHANGED <<db, caller, args, user, http, users0, earlier, fetchvars,
                   response, call, first>>

\* ------------------------------------------------ create_user_endpoint
\* The base classes of the exceptions that reach the endpoint: pydantic's
\* ValidationError is a ValueError.
Bases(exc) ==
    CASE exc = "ValidationError" -> {"ValidationError", "ValueError", "Exception"}
      [] exc = "ValueError" -> {"ValueError", "Exception"}
      [] exc = "NameError" -> {"NameError", "Exception"}
      [] exc = "RuntimeError" -> {"RuntimeError", "Exception"}

\* The except clauses of create_user_endpoint, in the order they are written.
ExceptClauses ==
    <<[catches |-> "ValueError", status_code |-> 409, code |-> "USER_EXISTS"],
      [catches |-> "ValidationError", status_code |-> 422,
       code |-> "VALIDATION_ERROR"],
      [catches |-> "Exception", status_code |-> 500, code |-> "INTERNAL_ERROR"]>>

\* try/except: the first clause whose class the exception is an instance of.
Handler(exc) ==
    LET i == CHOOSE k \in DOMAIN ExceptClauses :
                /\ ExceptClauses[k].catches \in Bases(exc)
                /\ \A j \in 1..(k - 1) :
                      ExceptClauses[j].catches \notin Bases(exc)
    IN  ExceptClauses[i]

\* UserResponse(user_id=str(user.id), username=..., email=..., is_active=...)
UserResponse(u) ==
    [user_id |-> u.id, username |-> u.username, email |-> u.email,
     is_active |-> u.is_active]

\* The endpoint after register_user_service has ended: 201 with the user's
\* data, or the HTTPException of the except clause that caught the error.
CreateUserResponse(res) ==
    IF res.kind = "User"
    THEN [status_code |-> 201, body |-> UserResponse(res.user)]
    ELSE [status_code |-> Handler(res.exc).status_code,
          code |-> Handler(res.exc).code]

Respond ==
    /\ upc = "done"
    /\ caller = "create_user_endpoint"
    /\ http = [kind |-> "none"]
    /\ http' = CreateUserResponse(result)
    /\ UNCHANGED <<uow, db, caller, args, upc, user, result, users0, trace,
                   earlier, fetchvars, response, call, first>>

\* ------------------------------------ the block of a unit-of-work test
\* `await uow.users.add(User(...))`, one add after the other, then
\* `await uow.commit()` where the test has it, then the end of the block:
\* `raise RuntimeError("boom")` or a normal exit.
BlockAdd ==
    /\ upc = "body"
    /\ Len(trace) - 1 < Len(args.adds)
    /\ LET e == args.adds[Len(trace)]
       IN  \E id \in Uuids :
              uow' = [uow EXCEPT !.users =
                         CallAdd(uow.cls, uow.users,
                                 NewUser(id, <<"b", "o", "b">>, e), TRUE)]
    /\ trace' = Append(trace, "add")
    /\ UNCHANGED <<db, caller, args, upc, user, result, http, users0,
                   earlier, fetchvars, response, call, first>>

BlockEnd ==
    /\ upc = "body"
    /\ Len(trace) - 1 = Len(args.adds)
    /\ uow' = [uow EXCEPT !.committed = args.commit]
    /\ trace' = IF args.commit THEN Append(trace, "commit") ELSE trace
    /\ IF args.raises
       THEN Raise("RuntimeError")
       ELSE result' = [kind |-> "exited"] /\ upc' = "done"
    /\ UNCHANGED <<db, caller, args, user, http, users0, earlier, fetchvars,
                   response, call, first>>

NextUsers ==
    \/ Enter
    \/ GetExisting
    \/ BuildUser
    \/ AddUser
    \/ Commit
    \/ Respond
    \/ BlockAdd
    \/ BlockEnd

SpecUsers == InitUsers /\ [][NextUsers]_vars

\* ------------------------- concurrent registrations with one email
\* Largest number of register_user_service calls started together.
MaxRegistrations == 2

RegisterCallers == {"test_register_user_service", "create_user_endpoint"}

\* Several calls of register_user_service with the same arguments are
\* started together (asyncio.gather) on a store that has no user with that
\* email.
InitSameEmail ==
    /\ InitUsers
    /\ caller \in RegisterCallers
    /\ \A i \in DOMAIN uow.users : uow.users[i].email # args.email

\* The next of the calls started together gets to run.  No await of the
\* handler suspends: the fake's methods are coroutines without an await of
\* their own and SqlAlchemyUnitOfWork.__aenter__ fails before any I/O, so a
\* call that has started runs to its end (the endpoint to its response)
\* before the loop steps the next one.  The tests share one FakeUnitOfWork;
\* get_uow builds a new SqlAlchemyUnitOfWork for every request.
NextRegistration ==
    /\ upc = "done"
    /\ caller \in RegisterCallers
    /\ caller = "create_user_endpoint" => http # [kind |-> "none"]
    /\ Len(earlier) + 1 < MaxRegistrations
    /\ earlier' = Append(earlier, [result |-> result, http |-> http,
                                   session |-> uow.session])
    /\ uow' = IF uow.cls = "FakeUnitOfWork" THEN uow ELSE NewUow(uow.cls)
    /\ upc' = "enter"
    /\ user' = [kind |-> "none"]
    /\ result' = [kind |-> "none"]
    /\ http' = [kind |-> "none"]
    /\ trace' = <<>>
    /\ UNCHANGED <<db, caller, args, users0, fetchvars, response, call, first>>

NextSameEmail ==
    \/ Enter
    \/ GetExisting
    \/ BuildUser
    \/ AddUser
    \/ Commit
    \/ Respond
    \/ NextRegistration

SpecSameEmail == InitSameEmail /\ [][NextSameEmail]_vars

\* ================================================== the catalog, one call
Next ==
    \/ Spawn
    \/ \E u \in Units : RunStep(u)
    \/ \E u \in Units : RunDone(u)
    \/ RunParent
    \/ \E u \in Units : TimerFire(u)
    \/ Tick
    \/ GetProduct

Spec == Init /\ [][Next]_vars

\* --------------------------------------------------------------- the types
TypeOK ==
    /\ pc \in {"init", "waiting", "returned"}
    /\ now \in 0..MaxDelay
    /\ tstate \in [Units -> {"none", "created"} \cup Sleeping \cup Terminal]
    /\ tg_tasks \subseteq Units
    /\ Len(ready) <= 4
    /\ outcome.kind \in {"none", "Product", "UpstreamTimeout", "ExceptionGroup",
                         "CancelledError"}

\* The loop never stalls before the call has returned.
NoStall == pc = "returned" \/ ENABLED Next

\* ================================================================ claims
\* A unit that was still running when the deadline had passed.
RanPastDeadline(u) == doneAt[u] > timeout_seconds

\* C1: with a positive deadline, a call in which some unit had not completed
\* when the deadline passed ends in UpstreamTimeout (the coordinator's own
\* deadline decides, whatever the capability does with the advisory timeout).
C1_CoordinatorDeadline ==
    (/\ pc = "returned"
     /\ timeout_seconds > 0
     /\ \E u \in Units : RanPastDeadline(u))
    => outcome.kind = "UpstreamTimeout"

\* C2: with a positive deadline, the call yields a Product if and only if
\* all three units completed successfully no later than the deadline.
C2_CompositeIffAllInTime ==
    timeout_seconds > 0 =>
        (outcome.kind = "Product" <=>
            /\ pc = "returned"
            /\ \A u \in Units :
                  tstate[u] = "result" /\ doneAt[u] <= timeout_seconds)

\* C3: when fetch_product has returned or raised, every unit is completed,
\* failed or cancelled, and none has a step left to run.
C3_AllTerminalAtReturn ==
    pc = "returned" =>
        \A u \in Units :
            /\ tstate[u] \in Terminal
            /\ ~InReady(StepHandle(u))
            /\ ~ENABLED (RunStep(u) \/ TimerFire(u))

\* C3 witness: a call that raised after a unit had to be cancelled.
C3_Witness ==
    /\ pc = "returned"
    /\ outcome.kind # "Product"
    /\ \E u \in Units : tstate[u] = "cancelled"

\* C4: a failing call surfaces as UpstreamTimeout or UpstreamFailure only,
\* and a non-timeout failure that is reported before the deadline has passed
\* surfaces as UpstreamFailure wrapping the first failure observed.
C4_ClassifiedKindsOnly ==
    (pc = "returned" /\ timeout_seconds > 0) =>
        /\ outcome.kind \in {"Product", "UpstreamTimeout", "UpstreamFailure"}
        /\ (/\ tg_errors # <<>>
            /\ \A i \in DOMAIN tg_errors : ~IsTimeoutError(tg_errors[i])
            /\ returnedAt <= timeout_seconds)
           => outcome = [kind |-> "UpstreamFailure", cause |-> tg_errors[1]]

\* C5: with a positive deadline, a call that ends after the deadline has
\* passed and in which some unit failed with a non-timeout error ends in
\* UpstreamTimeout.
C5_TimeoutPrecedence ==
    (/\ pc = "returned"
     /\ timeout_seconds > 0
     /\ returnedAt > timeout_seconds
     /\ \E u \in Units :
           tstate[u] = "exception" /\ task_result[u].exc = "DomainError")
    => outcome.kind = "UpstreamTimeout"

\* The unit whose failure the group observed first.
FirstFailed == tg_errors[1].unit

\* C6: once the group has observed a first, non-timeout failure, every other
\* unit is either done no later than the failing unit or has been cancelled
\* and is scheduled to receive the cancellation at that same instant; the
\* call reports its error only when all units are terminal, and at the
\* instant of the failure.
C6_FailFast ==
    (tg_errors # <<>> /\ tg_errors[1].exc = "DomainError") =>
        /\ \A t \in Units :
              \/ tstate[t] \in Terminal /\ doneAt[t] <= doneAt[FirstFailed]
              \/ /\ must_cancel[t]
                 /\ InReady(StepHandle(t))
                 /\ now = doneAt[FirstFailed]
        /\ pc = "returned" =>
              /\ \A t \in Units : tstate[t] \in Terminal
              /\ returnedAt = doneAt[FirstFailed]

\* C6 witness: the call raised after a failure of one unit cancelled a
\* sibling that would have slept on.
C6_Witness ==
    /\ pc = "returned"
    /\ outcome.kind = "ExceptionGroup"
    /\ \E t \in Units :
          tstate[t] = "cancelled" /\ wake[t] > doneAt[FirstFailed]

\* The client raises TimeoutError once the advisory timeout has passed.
SlowHonouring(u) ==
    clients[u].honours /\ clients[u].delay > timeout_seconds

\* The client answers before the deadline, with a value.
FastOk(u) ==
    clients[u].raises = "None" /\ clients[u].delay < timeout_seconds

\* The client would not answer before the deadline has passed.
Slow(u) == clients[u].delay > timeout_seconds

\* One capability is slow and honours the timeout; every other one is fast
\* and succeeds, or is slow as well.
C7_Case ==
    /\ timeout_seconds > 0
    /\ \E u \in Units :
          /\ SlowHonouring(u)
          /\ \A v \in Units \ {u} : FastOk(v) \/ Slow(v)

\* C7: in that case the clock never passes the deadline while the call is
\* running, and the call raises UpstreamTimeout at the deadline with every
\* slow unit cancelled or timed out, none run to its end.
C7_TimeoutAtDeadline ==
    C7_Case =>
        /\ now <= timeout_seconds
        /\ pc = "returned" =>
              /\ outcome.kind = "UpstreamTimeout"
              /\ returnedAt = timeout_seconds
              /\ \A v \in Units :
                    /\ tstate[v] \in Terminal
                    /\ Slow(v) =>
                          \/ tstate[v] = "cancelled"
                          \/ task_result[v] = [kind |-> "exception",
                                               exc |-> "TimeoutError"]

\* C7 witness: the call raised UpstreamTimeout at the deadline and a slow
\* sibling that ignores the timeout was cancelled.
C7_Witness ==
    /\ C7_Case
    /\ pc = "returned"
    /\ outcome.kind = "UpstreamTimeout"
    /\ \E v \in Units :
          ~clients[v].honours /\ Slow(v) /\ tstate[v] = "cancelled"
    /\ \E v \in Units : FastOk(v) /\ tstate[v] = "result"

\* C8: when all three capabilities have succeeded within the deadline, the
\* call returns a Product whose id is the requested one and whose fields
\* are the values the capabilities produced, reviews in their order.
C8_SuccessComposition ==
    (/\ pc = "returned"
     /\ \A u \in Units : tstate[u] = "result" /\ doneAt[u] <= timeout_seconds)
    => outcome = [kind |-> "Product",
                  value |-> [id |-> product_id,
                             inventory |-> clients["inventory"].value,
                             price |-> clients["pricing"].value,
                             reviews |-> clients["reviews"].value]]

\* C8 witness: a Product with two reviews, returned after the reviews unit
\* completed before the inventory unit.
C8_Witness ==
    /\ pc = "returned"
    /\ outcome.kind = "Product"
    /\ outcome.value.reviews = <<"ok", "great">>
    /\ doneAt["reviews"] < doneAt["inventory"]
    /\ doneAt["inventory"] <= timeout_seconds

\* C9: a call with a deadline of zero or less spawns no unit, invokes no
\* capability and ends in UpstreamTimeout.
C9_NoSpawnWithoutDeadline ==
    (timeout_seconds <= 0 /\ pc # "init") =>
        /\ \A u \in Units : calls[u] = <<>> /\ tstate[u] = "none"
        /\ pc = "returned" => outcome.kind = "UpstreamTimeout"

\* C10: in a call with a positive deadline every capability's get is invoked
\* exactly once, with the caller's identifier and the call's deadline as
\* timeout, one task per capability, at every point of the call and after.
C10_OneCallEach ==
    (timeout_seconds > 0 /\ pc # "init") =>
        \A u \in Units :
            /\ calls[u] = <<[product_id |-> product_id,
                             timeout |-> timeout_seconds]>>
            /\ tstate[u] # "none"
            /\ (u \in tg_tasks \/ tstate[u] \in Terminal)

\* C10 witness: a call that failed and one that timed out are covered; here
\* the call has raised after a unit failed and another was cancelled.
C10_Witness ==
    /\ timeout_seconds > 0
    /\ pc = "returned"
    /\ outcome.kind \in {"UpstreamTimeout", "ExceptionGroup"}
    /\ \E u \in Units : tstate[u] = "cancelled"
    /\ \A u \in Units : Len(calls[u]) = 1

\* Some unit has ended with an error that is not a timeout.
NonTimeoutFailureSeen ==
    \E i \in DOMAIN tg_errors : ~IsTimeoutError(tg_errors[i])

\* C11: in a call with a positive deadline a unit is cancelled only once the
\* deadline has been reached or some unit has ended with a non-timeout
\* failure; where neither has happened no unit has been cancelled.
C11_CancelOnlyOnDeadlineOrFailure ==
    timeout_seconds > 0 =>
        \A u \in Units :
            (must_cancel[u] \/ tstate[u] = "cancelled")
            => (now >= timeout_seconds \/ NonTimeoutFailureSeen)

\* The step in which the caller leaves the TaskGroup without error and reads
\* the three task results (lines 42-46).
ReadsResults == pc = "waiting" /\ pc' = "returned" /\ tg_errors = <<>>

\* C13: a task's result slot is written once, by a step of that task and by
\* nothing else, and no step writes two slots; when the caller reads the
\* three results to build the Product every unit has completed successfully
\* and left the group, so the read finds three values and yields a Product.
C13_OwnSlotReadWhenDone ==
    [][/\ \A u \in Units :
             task_result'[u] # task_result[u] =>
                /\ ready # <<>>
                /\ Head(ready) = StepHandle(u)
                /\ task_result[u] = [kind |-> "none"]
                /\ tstate'[u] \in Terminal
                /\ \A v \in Units \ {u} : task_result'[v] = task_result[v]
       /\ ReadsResults =>
             /\ \A u \in Units :
                   /\ tstate[u] = "result"
                   /\ task_result[u].kind = "result"
                   /\ u \notin tg_tasks
             /\ outcome'.kind = "Product"]_vars

\* C13 witness: a Product was built from results that the three units
\* stored at three different times.
C13_Witness ==
    /\ pc = "returned"
    /\ outcome.kind = "Product"
    /\ doneAt["pricing"] < doneAt["reviews"]
    /\ doneAt["reviews"] < doneAt["inventory"]
    /\ \A u \in Units : task_result[u] = [kind |-> "result",
                                           value |-> clients[u].value]

\* Every capability succeeds, and takes exactly as long as the deadline.
C19_Case ==
    /\ timeout_seconds > 0
    /\ \A u \in Units :
          clients[u].raises = "None" /\ clients[u].delay = timeout_seconds

\* C19: when all three capabilities succeed exactly at the deadline, every
\* run ends with the same kind of outcome: the call returns the Product, at
\* the deadline, and no unit timed out or was cancelled.
C19_AtDeadlineAlwaysProduct ==
    (C19_Case /\ pc = "returned") =>
        /\ outcome.kind = "Product"
        /\ returnedAt = timeout_seconds
        /\ \A u \in Units : tstate[u] = "result" /\ doneAt[u] = timeout_seconds

\* C19 witness: such a call has returned, with a client that honours the
\* timeout and one that ignores it.
C19_Witness ==
    /\ C19_Case
    /\ pc = "returned"
    /\ outcome.kind = "Product"
    /\ clients["inventory"].honours
    /\ ~clients["pricing"].honours

\* C18: once get_product has answered, an UpstreamTimeout of fetch_product
\* has become a 504 response, a failure of a capability for a non-timeout
\* reason has become an error response of the endpoint other than the 504,
\* and a product response is given only for a successful fetch.
C18_DistinctErrorResponses ==
    response.kind # "none" =>
        /\ outcome.kind = "UpstreamTimeout" =>
              response = [kind |-> "HTTPException", status_code |-> 504]
        /\ (outcome.kind # "Product" /\ outcome.kind # "UpstreamTimeout") =>
              /\ response.kind = "HTTPException"
              /\ response.status_code # 504
        /\ response.kind = "ProductResponse" => outcome.kind = "Product"

\* C12: two calls whose capabilities behave alike (same outcome kind and
\* same completion time of every capability, same deadline) end with the
\* same kind of outcome, whatever the order in which the loop ran the unit
\* steps of each.
C12_SameBehavioursSameKind ==
    (/\ call = "second"
     /\ pc = "returned"
     /\ timeout_seconds = first.timeout_seconds
     /\ clients = first.clients)
    => outcome.kind = first.outcome.kind

\* -- what a call does when it is the only one the loop ever ran
\* When the capability's coroutine ends, counted from the start of the call.
EndsAt(c, d) ==
    IF TimesOut(c, d) THEN (IF d > 0 THEN d ELSE 0) ELSE c.delay

\* The exception it ends with, "None" for a value.
ErrorOf(c, d) == IF TimesOut(c, d) THEN "TimeoutError" ELSE c.raises

AloneFailing(cl, d) == {u \in Units : ErrorOf(cl[u], d) # "None"}

\* The units that fail first.
AloneFirst(cl, d) ==
    {u \in AloneFailing(cl, d) :
        \A v \in AloneFailing(cl, d) : EndsAt(cl[u], d) <= EndsAt(cl[v], d)}

\* A lone call returns when its slowest unit is done, or raises when the
\* first failure has cancelled the rest.
AloneReturn(cl, d) ==
    IF AloneFailing(cl, d) = {}
    THEN CHOOSE t \in 0..MaxDelay :
            /\ \E u \in Units : EndsAt(cl[u], d) = t
            /\ \A u \in Units : EndsAt(cl[u], d) <= t
    ELSE EndsAt(cl[CHOOSE u \in AloneFirst(cl, d) : TRUE], d)

\* The kinds of outcome a lone call can have; two only where a timeout and
\* another failure fall on the same tick.
AloneKinds(cl, d) ==
    IF AloneFailing(cl, d) = {} THEN {"Product"}
    ELSE {k \in {"UpstreamTimeout", "ExceptionGroup"} :
            \E u \in AloneFirst(cl, d) :
                (k = "UpstreamTimeout") = (ErrorOf(cl[u], d) = "TimeoutError")}

\* An ended call went as a lone call with these arguments goes.
AsAlone(pid, cl, d, out, at) ==
    /\ out.kind \in AloneKinds(cl, d)
    /\ at = AloneReturn(cl, d)
    /\ out.kind = "Product" =>
          out.value = [id |-> pid,
                       inventory |-> cl["inventory"].value,
                       price |-> cl["pricing"].value,
                       reviews |-> cl["reviews"].value]

\* C14: of two calls run one after the other with capabilities of their
\* own, each ends as it would have ended alone: the second starts on a loop
\* on which the first has left nothing to run and no unit alive, its outcome
\* and the time it takes are those of a lone call with its arguments, and
\* the outcome of the first stays what a lone call would have got.
C14_EachCallAsAlone ==
    /\ (call = "second" /\ pc = "init") =>
          /\ ready = <<>>
          /\ \A u \in Units : tstate[u] \in Terminal /\ u \notin tg_tasks
    /\ pc = "returned" =>
          AsAlone(product_id, clients, timeout_seconds, outcome, returnedAt)
    /\ call = "second" =>
          AsAlone(first.product_id, first.clients, first.timeout_seconds,
                  first.outcome, first.returnedAt)

\* C14 witness: the second call returned a Product after its slowest unit,
\* on the loop on which the first call had raised after cancelling a unit.
C14_Witness ==
    /\ call = "second"
    /\ pc = "returned"
    /\ first.outcome.kind # "Product"
    /\ outcome.kind = "Product"
    /\ returnedAt > 0
    /\ \E u \in Units : first.clients[u].delay > first.returnedAt

\* ---------------------------------------------- claims on clean_python
\* register_user_service was called, by a test or by the endpoint.
Registering == caller \in {"test_register_user_service", "create_user_endpoint"}

\* The email of the call belonged to a user of the repository beforehand.
EmailTaken == \E i \in DOMAIN users0 : users0[i].email = args.email

\* C15: after register_user_service has returned a user for an email that
\* was not in the repository, get_by_email(email) on the unit of work's
\* repository yields that user, the add was made before the commit, and the
\* unit of work is committed.
C15_RegisteredUserStored ==
    (/\ Registering
     /\ upc = "done"
     /\ result.kind = "User"
     /\ ~EmailTaken)
    => /\ GetByEmail(uow.users, args.email) =
             [kind |-> "User", user |-> result.user]
       /\ \E i, j \in DOMAIN trace :
             i < j /\ trace[i] = "add" /\ trace[j] = "commit"
       /\ uow.committed

\* C16: a call of register_user_service with an email that already belongs
\* to a user of the repository never gets past the lookup: the repository
\* keeps exactly the users it had, nothing is added, commit is not called,
\* and the call ends with ValueError.
C16_DuplicateEmailRejected ==
    (Registering /\ EmailTaken) =>
        /\ uow.users = users0
        /\ ~uow.committed
        /\ \A i \in DOMAIN trace : trace[i] \notin {"add", "commit"}
        /\ upc \in {"enter", "get_by_email", "done"}
        /\ upc = "done" => result = [kind |-> "raised", exc |-> "ValueError"]

\* C16 witness: the call was rejected for the email of the second of two
\* users, with a username the validator would not have accepted either.
C16_Witness ==
    /\ Registering
    /\ upc = "done"
    /\ Len(users0) = 2
    /\ users0[2].email = args.email
    /\ UsernameError(args.username) # "None"
    /\ result = [kind |-> "raised", exc |-> "ValueError"]

\* C17: when an `async with SqlAlchemyUnitOfWork` block has ended, a block
\* whose body raised has been rolled back and its RuntimeError has reached
\* the caller unchanged, a block that did not raise has exited normally, and
\* the users visible in the database are among those the block added and
\* then committed.
C17_RollbackOnError ==
    (/\ caller = "test_uow_block"
     /\ uow.cls = "SqlAlchemyUnitOfWork"
     /\ upc = "done")
    => /\ args.raises =>
             /\ result = [kind |-> "raised", exc |-> "RuntimeError"]
             /\ \E i \in DOMAIN uow.session_calls :
                   uow.session_calls[i] = "rollback"
       /\ ~args.raises => result = [kind |-> "exited"]
       /\ \A row \in db :
             /\ args.commit
             /\ \E i \in DOMAIN args.adds : args.adds[i] = row.email

\* C20: what create_user_endpoint answers is what it declares for the way
\* register_user_service ended: 201 with the user's data for a user, 409
\* USER_EXISTS for an email already registered, 422 VALIDATION_ERROR for a
\* ValidationError of the User model, 500 INTERNAL_ERROR for anything else.
C20_ResponsesAsDeclared ==
    http # [kind |-> "none"] =>
        CASE result.kind = "User" ->
                http = [status_code |-> 201,
                        body |-> [user_id |-> result.user.id,
                                  username |-> result.user.username,
                                  email |-> result.user.email,
                                  is_active |-> result.user.is_active]]
          [] result.kind = "raised" /\ result.exc = "ValidationError" ->
                http = [status_code |-> 422, code |-> "VALIDATION_ERROR"]
          [] result.kind = "raised" /\ result.exc = "ValueError" ->
                http = [status_code |-> 409, code |-> "USER_EXISTS"]
          [] OTHER ->
                http = [status_code |-> 500, code |-> "INTERNAL_ERROR"]

\* C22: a fetch_product call that its caller cancelled while it was running
\* ends in a cancellation: what the caller receives is CancelledError, not
\* UpstreamTimeout, not an ExceptionGroup of upstream failures, not a Product.
C22_CallerCancelPropagates ==
    (pc = "returned" /\ caller_cancel # "none")
        => outcome.kind = "CancelledError"

\* C23: on a loop that keeps running, with capabilities that answer, fail or
\* stop when cancelled, every call of fetch_product that has not ended yet
\* eventually ends, with a Product or an exception; in particular the
\* coordinator does not stay suspended once all three units are terminal.
C23_EventuallyReturns ==
    (pc # "returned") ~> (pc = "returned" /\ outcome.kind # "none")

\* A call has ended after one capability answered, one failed and one
\* stopped on being cancelled.
C23_Witness ==
    /\ pc = "returned"
    /\ outcome.kind # "none"
    /\ \E u, v, w \in Units :
          /\ tstate[u] = "result"
          /\ tstate[v] = "exception"
          /\ tstate[w] = "cancelled"

\* How often the session of the unit of work has been closed.
Closes == Cardinality({i \in DOMAIN uow.session_calls :
                          uow.session_calls[i] = "close"})

\* C24: when an `async with SqlAlchemyUnitOfWork` statement has ended, on
\* whatever path, the session its entry opened has been closed exactly once;
\* and a block that exited normally without a commit has been rolled back
\* and has left nothing in the database.
C24_SessionClosedOnce ==
    (/\ uow.cls = "SqlAlchemyUnitOfWork"
     /\ upc = "done"
     /\ uow.session # "none")
    => /\ uow.session = "closed"
       /\ Closes = 1
       /\ (result = [kind |-> "exited"] /\ ~uow.committed)
             => /\ \E i \in DOMAIN uow.session_calls :
                      uow.session_calls[i] = "rollback"
                /\ db = {}

\* How every call started so far has ended, the current one last.
Results == Append([i \in DOMAIN earlier |-> earlier[i].result], result)

\* C21: when two or more register_user_service calls with the same email
\* and an acceptable username, started together on a store without that
\* email, have all ended, at most one of them has returned a user, the
\* store holds at most one user with that email, and every call that did
\* not return a user was refused with the ValueError of a duplicate
\* registration.
C21_OneRegistrationWins ==
    (/\ caller \in RegisterCallers
     /\ upc = "done"
     /\ earlier # <<>>
     /\ UsernameError(args.username) = "None"
     /\ \A i \in DOMAIN users0 : users0[i].email # args.email)
    => /\ Cardinality({i \in DOMAIN Results : Results[i].kind = "User"}) <= 1
       /\ Cardinality({i \in DOMAIN uow.users :
                          uow.users[i].email = args.email}) <= 1
       /\ Cardinality({row \in db : row.email = args.email}) <= 1
       /\ \A i \in DOMAIN Results :
             Results[i].kind # "User"
                 => Results[i] = [kind |-> "raised", exc |-> "ValueError"]

====
